---- MODULE Spec2Model ----
(***************************************************************************)
(* Model of src/sketch.js: the per-frame update of draw() (player motion,  *)
(* camera target, idle drift, soft clamp, camera easing) and the key       *)
(* handler keyPressed() with resetToStart().  The drawing calls of draw()  *)
(* read the state and write none of it; they are left out.                 *)
(*                                                                         *)
(* Numbers.  The sketch computes in JavaScript doubles.  The model         *)
(* computes in fixed point: one pixel is Unit = 1000 model units, a        *)
(* factor such as 0.09 is 90 thousandths, and every product or quotient    *)
(* is rounded to the nearest unit, as a double operation is rounded to     *)
(* the nearest double.  Every constant of the sketch is a whole number of  *)
(* thousandths, so the constants themselves are exact.                     *)
(***************************************************************************)
EXTENDS Integers, FiniteSets, Sequences, TLC

VARIABLES player, cam, driftFade, opt, keys, frames

vars == <<player, cam, driftFade, opt, keys, frames>>

-----------------------------------------------------------------------------
(* Fixed-point arithmetic *)

\* model units per pixel (and per 1.0 of a factor)
Unit == 10 ^ 3

Abs(a) == IF a < 0 THEN -a ELSE a

\* a / b rounded to the nearest integer, halves away from zero (b > 0)
RoundDiv(a, b) ==
  IF a >= 0 THEN (2 * a + b) \div (2 * b) ELSE -((2 * (-a) + b) \div (2 * b))

\* the product of two fixed-point numbers
Mul(a, b) == RoundDiv(a * b, Unit)

RECURSIVE IsqrtIter(_, _)
IsqrtIter(n, x) ==
  LET y == (x + n \div x) \div 2
  IN  IF y >= x THEN x ELSE IsqrtIter(n, y)

\* Math.sqrt on a whole number, rounded to the nearest integer
Sqrt(n) ==
  IF n = 0 THEN 0
  ELSE LET r == IsqrtIter(n, n)
       IN  IF n - r * r > r THEN r + 1 ELSE r

\* Math.sqrt(a * a + b * b) of two fixed-point numbers, in units
Hypot(a, b) == Sqrt(a * a + b * b)

-----------------------------------------------------------------------------
(* Constants of the sketch *)

WORLD_W == 2400
WORLD_H == 1600
VIEW_W == 800
VIEW_H == 480
START_X == 300
START_Y == 300

\* a whole number of pixels in model units
Px(n) == n * Unit

\* width and height as createCanvas(VIEW_W, VIEW_H) sets them
width == Px(VIEW_W)
height == Px(VIEW_H)

\* thousandths: 0.38, 0.9, 3.0, 0.5, 0.05
MOVE == [accel |-> 380, friction |-> 900, maxSpeed |-> 3000, slowMult |-> 500,
         stopEps |-> 50]

\* thousandths: 0.09, 0.22, 0.08; overscrollPad in pixels
CAMERA == [smooth |-> 90, smoothRM |-> 220, overscrollPad |-> 60, clampSoft |-> 80]

\* amt in pixels; thousandths: 0.02, 0.06
DRIFT == [amt |-> 18, fadeIn |-> 20, fadeOut |-> 60]

-----------------------------------------------------------------------------
(* Helpers of the host runtime (p5.js), as the sketch uses them *)

constrain(n, low, high) == IF n < low THEN low ELSE IF n > high THEN high ELSE n

lerp(start, stop, amt) == Mul(amt, stop - start) + start

\* the keys draw() asks keyIsDown about; each direction stands for the arrow
\* key and its WASD alias, which draw() joins with ||
Keys == {"LEFT", "RIGHT", "UP", "DOWN", "SHIFT"}

\* the values noise() may return, in thousandths: the two ends of its range
NoiseVals == {0, 1000}

\* the values of `key` keyPressed() may see: the three commands in both cases
\* and a key that is none of them
KeyChars == {"m", "M", "h", "H", "r", "R", "x"}

-----------------------------------------------------------------------------
(* draw(), part 1: input to motion *)

B2N(b) == IF b THEN 1 ELSE 0

\* the direction vector (dx, dy) of the held keys
Dir(k) == [dx |-> B2N("RIGHT" \in k) - B2N("LEFT" \in k),
           dy |-> B2N("DOWN" \in k) - B2N("UP" \in k)]

\* (nx, ny): the direction divided by its Euclidean length, or zero
Normalize(d) ==
  LET mag == Hypot(Px(d.dx), Px(d.dy))
  IN  [nx |-> IF mag > 0 THEN RoundDiv(Px(d.dx) * Unit, mag) ELSE 0,
       ny |-> IF mag > 0 THEN RoundDiv(Px(d.dy) * Unit, mag) ELSE 0]

Accel(slow) == IF slow THEN Mul(MOVE.accel, 650) ELSE MOVE.accel

\* MaxSp without the slow-walk multiplier
MaxSpIgnoresSlow(slow) == MOVE.maxSpeed

MaxSp(slow) == IF slow THEN Mul(MOVE.maxSpeed, MOVE.slowMult) ELSE MOVE.maxSpeed

\* velocity plus direction times acceleration
Accelerate(v, k) ==
  LET n == Normalize(Dir(k))
      a == Accel("SHIFT" \in k)
  IN  [vx |-> v.vx + Mul(n.nx, a), vy |-> v.vy + Mul(n.ny, a)]

\* ClampSpeed limiting each component instead of the length
ClampSpeedPerAxis(v, maxSp) ==
  [vx |-> constrain(v.vx, -maxSp, maxSp), vy |-> constrain(v.vy, -maxSp, maxSp)]

\* the velocity scaled down to length maxSp when it is longer
ClampSpeed(v, maxSp) ==
  LET sp == Hypot(v.vx, v.vy)
  IN  IF sp > maxSp
      THEN LET kk == RoundDiv(maxSp * Unit, sp)
           IN  [vx |-> Mul(v.vx, kk), vy |-> Mul(v.vy, kk)]
      ELSE v

Friction(v) == [vx |-> Mul(v.vx, MOVE.friction), vy |-> Mul(v.vy, MOVE.friction)]

\* Snap with the two snapping statements left out
SnapNever(v) == v

\* components below stopEps become exactly 0
Snap(v) == [vx |-> IF Abs(v.vx) < MOVE.stopEps THEN 0 ELSE v.vx,
            vy |-> IF Abs(v.vy) < MOVE.stopEps THEN 0 ELSE v.vy]

\* the velocity draw() has computed when it adds it to the position
VelocityUpdate(v, k) ==
  Snap(Friction(ClampSpeed(Accelerate(v, k), MaxSp("SHIFT" \in k))))

\* ClampPosition with WORLD_W and WORLD_H exchanged
ClampPositionSwapped(x, y, v) ==
  LET cx == constrain(x, 0, Px(WORLD_H))
      cy == constrain(y, 0, Px(WORLD_W))
  IN  [x |-> cx, y |-> cy,
       vx |-> IF cx # x THEN Mul(v.vx, 200) ELSE v.vx,
       vy |-> IF cy # y THEN Mul(v.vy, 200) ELSE v.vy]

\* ClampPosition damping both components when either axis is clipped
ClampPositionDampsBoth(x, y, v) ==
  LET cx == constrain(x, 0, Px(WORLD_W))
      cy == constrain(y, 0, Px(WORLD_H))
      hit == cx # x \/ cy # y
  IN  [x |-> cx, y |-> cy,
       vx |-> IF hit THEN Mul(v.vx, 200) ELSE v.vx,
       vy |-> IF hit THEN Mul(v.vy, 200) ELSE v.vy]

\* the position clipped into the world, the velocity damped on a clipped axis
ClampPosition(x, y, v) ==
  LET cx == constrain(x, 0, Px(WORLD_W))
      cy == constrain(y, 0, Px(WORLD_H))
  IN  [x |-> cx, y |-> cy,
       vx |-> IF cx # x THEN Mul(v.vx, 200) ELSE v.vx,
       vy |-> IF cy # y THEN Mul(v.vy, 200) ELSE v.vy]

\* the player after part 1 of draw() with the keys k held
MotionUpdate(p, k) ==
  LET v == VelocityUpdate([vx |-> p.vx, vy |-> p.vy], k)
      q == ClampPosition(p.x + v.vx, p.y + v.vy, v)
  IN  [x |-> q.x, y |-> q.y, s |-> p.s, vx |-> q.vx, vy |-> q.vy]

-----------------------------------------------------------------------------
(* draw(), part 2: camera *)

\* DriftFadeUpdate without the reduced-motion branch
DriftFadeUpdateIgnoresRM(f, p, o) ==
  LET moving == Abs(p.vx) + Abs(p.vy) > 0
  IN  lerp(f, IF moving THEN 0 ELSE Unit,
           IF moving THEN DRIFT.fadeOut ELSE DRIFT.fadeIn)

\* DriftFadeUpdate with the sense of `moving` inverted
DriftFadeUpdateInverted(f, p, o) ==
  LET moving == ~(Abs(p.vx) + Abs(p.vy) > 0)
  IN  IF o.reducedMotion THEN 0
      ELSE lerp(f, IF moving THEN 0 ELSE Unit,
                IF moving THEN DRIFT.fadeOut ELSE DRIFT.fadeIn)

\* driftFade after the frame: 0 under reduced motion, else eased toward 0
\* while the player moves and toward 1 while it rests
DriftFadeUpdate(f, p, o) ==
  LET moving == Abs(p.vx) + Abs(p.vy) > 0
  IN  IF o.reducedMotion THEN 0
      ELSE lerp(f, IF moving THEN 0 ELSE Unit,
                IF moving THEN DRIFT.fadeOut ELSE DRIFT.fadeIn)

\* (noise - 0.5) * 2 * DRIFT.amt * driftFade, in units
DriftOffset(nz, f) == Mul((nz - 500) * 2 * DRIFT.amt, f)

\* draw() calls noise() only while driftFade > 0.001
DriftApplies(f) == f > 1

\* the target centred on the player, plus the drift while driftFade > 0.001
RawTarget(p, f, nzx, nzy) ==
  LET tx == p.x - width \div 2
      ty == p.y - height \div 2
  IN  IF DriftApplies(f)
      THEN [tx |-> tx + DriftOffset(nzx, f), ty |-> ty + DriftOffset(nzy, f)]
      ELSE [tx |-> tx, ty |-> ty]

\* the target eased toward its hard-clamped value
SoftClamp(t) ==
  LET minX == -Px(CAMERA.overscrollPad)
      minY == -Px(CAMERA.overscrollPad)
      maxX == Px(WORLD_W) - width + Px(CAMERA.overscrollPad)
      maxY == Px(WORLD_H) - height + Px(CAMERA.overscrollPad)
      clampedTx == constrain(t.tx, minX, maxX)
      clampedTy == constrain(t.ty, minY, maxY)
  IN  [tx |-> lerp(t.tx, clampedTx, CAMERA.clampSoft),
       ty |-> lerp(t.ty, clampedTy, CAMERA.clampSoft)]

\* the camera eased toward the target t
Follow(c, t, o) ==
  LET camSmooth == IF o.reducedMotion THEN CAMERA.smoothRM ELSE CAMERA.smooth
  IN  [x |-> lerp(c.x, t.tx, camSmooth), y |-> lerp(c.y, t.ty, camSmooth),
       tx |-> t.tx, ty |-> t.ty]

\* the state draw() leaves: the keys k held, noise() returning nzx and nzy
drawUpdate(s, o, k, nzx, nzy) ==
  LET p == MotionUpdate(s.player, k)
      f == DriftFadeUpdate(s.driftFade, p, o)
      t == SoftClamp(RawTarget(p, f, nzx, nzy))
  IN  [player |-> p, cam |-> Follow(s.cam, t, o), driftFade |-> f]

-----------------------------------------------------------------------------
(* setup(), resetToStart(), keyPressed() *)

\* resetToStart without the two statements that zero the velocity
resetToStartKeepsVelocity(s) ==
  LET px == Px(START_X)
      py == Px(START_Y)
      cx == px - width \div 2
      cy == py - height \div 2
  IN  [player |-> [x |-> px, y |-> py, s |-> s.player.s,
                   vx |-> s.player.vx, vy |-> s.player.vy],
       cam |-> [x |-> cx, y |-> cy, tx |-> cx, ty |-> cy],
       driftFade |-> 0]

\* the state resetToStart() leaves
resetToStart(s) ==
  LET px == Px(START_X)
      py == Px(START_Y)
      cx == px - width \div 2
      cy == py - height \div 2
  IN  [player |-> [x |-> px, y |-> py, s |-> s.player.s, vx |-> 0, vy |-> 0],
       cam |-> [x |-> cx, y |-> cy, tx |-> cx, ty |-> cy],
       driftFade |-> 0]

\* the globals as declared, before setup() runs
Declared ==
  [player |-> [x |-> Px(300), y |-> Px(300), s |-> 3, vx |-> 0, vy |-> 0],
   cam |-> [x |-> 0, y |-> 0, tx |-> 0, ty |-> 0],
   driftFade |-> 0]

\* the state setup() leaves: its last statement is resetToStart()
AfterSetup == resetToStart(Declared)

OptDeclared == [reducedMotion |-> FALSE, highContrast |-> FALSE]

\* keyPressed with the H branch flipping opt.reducedMotion
keyPressedUpdateHFlipsRM(s, o, ch) ==
  LET o1 == IF ch \in {"m", "M"}
            THEN [o EXCEPT !.reducedMotion = ~o.reducedMotion] ELSE o
      f1 == IF ch \in {"m", "M"} /\ o1.reducedMotion THEN 0 ELSE s.driftFade
      o2 == IF ch \in {"h", "H"}
            THEN [o1 EXCEPT !.reducedMotion = ~o1.reducedMotion] ELSE o1
      s1 == [s EXCEPT !.driftFade = f1]
      s2 == IF ch \in {"r", "R"} THEN resetToStart(s1) ELSE s1
  IN  [state |-> s2, opt |-> o2]

\* the state and options keyPressed() leaves for the key ch
keyPressedUpdate(s, o, ch) ==
  LET o1 == IF ch \in {"m", "M"}
            THEN [o EXCEPT !.reducedMotion = ~o.reducedMotion] ELSE o
      f1 == IF ch \in {"m", "M"} /\ o1.reducedMotion THEN 0 ELSE s.driftFade
      o2 == IF ch \in {"h", "H"}
            THEN [o1 EXCEPT !.highContrast = ~o1.highContrast] ELSE o1
      s1 == [s EXCEPT !.driftFade = f1]
      s2 == IF ch \in {"r", "R"} THEN resetToStart(s1) ELSE s1
  IN  [state |-> s2, opt |-> o2]

-----------------------------------------------------------------------------
(* The state machine *)

\* frames of draw() a behaviour runs
MaxFrames == 1

State == [player |-> player, cam |-> cam, driftFade |-> driftFade]

Init ==
  /\ player = AfterSetup.player
  /\ cam = AfterSetup.cam
  /\ driftFade = AfterSetup.driftFade
  /\ opt = OptDeclared
  /\ keys = {}
  /\ frames = 0

\* one frame: draw() samples the held keys and the noise field
DrawWith(k, nzx, nzy) ==
  LET r == drawUpdate(State, opt, k, nzx, nzy)
  IN  /\ player' = r.player
      /\ cam' = r.cam
      /\ driftFade' = r.driftFade
      /\ keys' = k
      /\ frames' = frames + 1
      /\ UNCHANGED opt

\* the noise samples a frame with the keys k held can read: any pair when the
\* frame calls noise(), and one pair (which it does not read) when it does not
NoiseRead(k) ==
  IF DriftApplies(DriftFadeUpdate(driftFade, MotionUpdate(player, k), opt))
  THEN NoiseVals \X NoiseVals
  ELSE {<<0, 0>>}

Draw ==
  /\ frames < MaxFrames
  /\ \E k \in SUBSET Keys : \E nz \in NoiseRead(k) : DrawWith(k, nz[1], nz[2])

\* one key event
KeyPressedWith(ch) ==
  LET r == keyPressedUpdate(State, opt, ch)
  IN  /\ player' = r.state.player
      /\ cam' = r.state.cam
      /\ driftFade' = r.state.driftFade
      /\ opt' = r.opt
      /\ UNCHANGED <<keys, frames>>

KeyPressed == \E ch \in KeyChars : KeyPressedWith(ch)

Next == Draw \/ KeyPressed

Spec == Init /\ [][Next]_vars

-----------------------------------------------------------------------------
(* Behaviours that start later in a run.  Held(n, k, nzx, nzy) is the state *)
(* after setup() and n frames of draw() with the keys k held and noise()   *)
(* returning nzx and nzy: a state the program reaches, computed by the     *)
(* model of draw() itself.  WalkSpec starts from a sample of such states   *)
(* (the player at rest with the drift faded in, at steady speed, one frame *)
(* before each world edge, on an edge, in a corner) and runs Next.         *)

\* n more frames from the state s.  The frames are split in halves, and the
\* state h after the first half is a bound variable, so that it is evaluated
\* once, before the second half starts from it.
RECURSIVE Frames(_, _, _, _, _)
Frames(s, n, k, nzx, nzy) ==
  IF n = 0 THEN s
  ELSE IF n = 1 THEN drawUpdate(s, OptDeclared, k, nzx, nzy)
  ELSE CHOOSE r \in { Frames(h, n - n \div 2, k, nzx, nzy) :
                        h \in {Frames(s, n \div 2, k, nzx, nzy)} } : TRUE

Held(n, k, nzx, nzy) == Frames(AfterSetup, n, k, nzx, nzy)

Holds ==
  { <<0, {}, 0, 0>>, <<40, {}, 1000, 0>>,
    <<20, {"RIGHT"}, 0, 0>>, <<100, {"RIGHT", "DOWN"}, 0, 0>>,
    <<20, {"RIGHT", "SHIFT"}, 0, 0>>, <<30, {"RIGHT", "DOWN", "SHIFT"}, 0, 0>>,
    <<116, {"LEFT"}, 0, 0>>, <<116, {"UP"}, 0, 0>>,
    <<162, {"LEFT", "UP"}, 0, 0>>, <<168, {"LEFT", "UP"}, 0, 0>>,
    <<782, {"RIGHT"}, 0, 0>>, <<486, {"DOWN"}, 0, 0>>,
    <<1026, {"RIGHT", "DOWN"}, 0, 0>> }

WalkInit ==
  \E h \in Holds :
    \E s \in {Held(h[1], h[2], h[3], h[4])} :
      /\ player = s.player
      /\ cam = s.cam
      /\ driftFade = s.driftFade
      /\ opt = OptDeclared
      /\ keys = h[2]
      /\ frames = 0

WalkSpec == WalkInit /\ [][Next]_vars

-----------------------------------------------------------------------------
(* Frames with no direction key held.  RestSpec starts from the same sample *)
(* of states after M has been pressed there (reduced motion on, so that a  *)
(* frame never calls noise() and every input it reads is enumerated), and  *)
(* runs SettleFrames frames in which no direction key is held.             *)

\* frames with no direction key a behaviour of RestSpec runs: one more than
\* the 39 in which the model's top speed, 2.7 px a frame, decays below stopEps
SettleFrames == 40

\* the key sets with no direction: nothing held, SHIFT alone, opposite keys
NoDirection == { k \in SUBSET Keys : Dir(k).dx = 0 /\ Dir(k).dy = 0 }

RestInit ==
  \E h \in Holds :
    \E s \in {Held(h[1], h[2], h[3], h[4])} :
      \E r \in {keyPressedUpdate(s, OptDeclared, "m")} :
        /\ player = r.state.player
        /\ cam = r.state.cam
        /\ driftFade = r.state.driftFade
        /\ opt = r.opt
        /\ keys = h[2]
        /\ frames = 0

\* one frame with no direction key held
RestDraw ==
  /\ frames < SettleFrames
  /\ \E k \in NoDirection :
       LET r == drawUpdate(State, opt, k, 0, 0)
       IN  /\ player' = r.player
           /\ cam' = r.cam
           /\ driftFade' = r.driftFade
           /\ keys' = k
           /\ frames' = frames + 1
           /\ UNCHANGED opt

RestSpec == RestInit /\ [][RestDraw]_vars

-----------------------------------------------------------------------------
(* The claims *)

AtRest == player.vx = 0 /\ player.vy = 0

\* a step that is one frame of draw()
IsFrame == frames' = frames + 1

\* the square of the player's speed, in squared units
Speed2 == player.vx * player.vx + player.vy * player.vy

\* C1: in every reachable state the player is inside the world:
\* 0 <= player.x <= 2400 and 0 <= player.y <= 1600.
C1_PlayerInWorld ==
  /\ 0 <= player.x /\ player.x <= Px(2400)
  /\ 0 <= player.y /\ player.y <= Px(1600)

\* C1's case: a frame with RIGHT held has stopped the player on the right edge
\* of the world (its velocity still points out of the world).
C1_StoppedAtRightEdge ==
  frames > 0 /\ "RIGHT" \in keys /\ player.x = Px(2400) /\ player.vx > 0

\* C2: at the end of every frame the camera target is within the world bounds
\* extended by the overscroll margin of 60: -60 <= cam.tx <= 2400 - 800 + 60
\* and -60 <= cam.ty <= 1600 - 480 + 60.
C2_TargetWithinOverscroll ==
  [][IsFrame =>
       /\ -Px(60) <= cam.tx' /\ cam.tx' <= Px(2400 - 800 + 60)
       /\ -Px(60) <= cam.ty' /\ cam.ty' <= Px(1600 - 480 + 60)]_vars

\* the state C3 describes: the player at (300, 300) with zero velocity, the
\* camera at (-100, 60) and its target on it, driftFade 0; the target's
\* hard-clamped value is (-60, 60)
IsStart(st) ==
  /\ st.player.x = Px(300) /\ st.player.y = Px(300)
  /\ st.player.vx = 0 /\ st.player.vy = 0
  /\ st.cam.x = st.player.x - Px(400) /\ st.cam.x = -Px(100)
  /\ st.cam.y = st.player.y - Px(240) /\ st.cam.y = Px(60)
  /\ st.cam.tx = st.cam.x /\ st.cam.ty = st.cam.y
  /\ constrain(st.cam.tx, -Px(60), Px(1660)) = -Px(60)
  /\ constrain(st.cam.ty, -Px(60), Px(1180)) = Px(60)
  /\ st.driftFade = 0

\* C3: pressing R in any reachable state leaves the start state (player at
\* (300, 300), zero velocity, camera (-100, 60) centred on the player, target
\* equal to the camera, driftFade 0), and setup() leaves the same state.
C3_ResetRestoresStart ==
  /\ IsStart(AfterSetup)
  /\ [][KeyPressedWith("r") \/ KeyPressedWith("R") => IsStart(State')]_vars

\* C3's case: R was pressed after a frame with LEFT and DOWN held (the player
\* moving, away from the start) and with reduced motion on.
C3_ResetFromLeftEdge ==
  /\ IsStart(State)
  /\ frames > 0 /\ "LEFT" \in keys /\ "DOWN" \in keys /\ opt.reducedMotion

\* C4: from any reachable state, frames with no direction key held bring the
\* velocity to exactly (0, 0) after finitely many frames (SettleFrames of them
\* at most), and it stays (0, 0) in every later frame with no direction key.
C4_SettlesToRest ==
  /\ [](frames = SettleFrames => AtRest)
  /\ [][AtRest => AtRest']_vars

\* C4's case: the player left at steady speed 2.7 to the right has glided to
\* rest, more than 20 px further on, within the frames of the behaviour.
C4_GlidedToRest ==
  /\ AtRest /\ frames = SettleFrames
  /\ player.y = Px(300) /\ player.x > Held(20, {"RIGHT"}, 0, 0).player.x + Px(20)

\* C5: when M turns reduced motion on driftFade is 0 right after the handler,
\* it is 0 in every state in which reduced motion is on, and a frame under
\* reduced motion adds no drift to the camera target: the target is the
\* soft-clamped centre on the player.
C5_ReducedMotionNoDrift ==
  /\ [](opt.reducedMotion => driftFade = 0)
  /\ [][IsFrame /\ opt.reducedMotion =>
          LET t == SoftClamp([tx |-> player.x' - Px(400), ty |-> player.y' - Px(240)])
          IN  cam.tx' = t.tx /\ cam.ty' = t.ty]_vars

\* C5's case: M was pressed with the drift faded in more than half (the camera
\* has drifted more than 5 px right of its centre), and an idle frame has run
\* under reduced motion since.
C5_QuietedWhileDrifting ==
  /\ opt.reducedMotion /\ frames > 0 /\ AtRest /\ driftFade = 0
  /\ cam.x > cam.tx + Px(3)

\* the largest difference of two speeds that the rounding of the model's
\* arithmetic to whole units explains
SpeedTol == 2

\* a frame with the keys of the last frame held would leave the velocity as it
\* is and would not clip the position: the steady state of holding these keys
\* away from the world's edges
Steady ==
  LET p == MotionUpdate(player, keys)
  IN  /\ Dir(keys).dx # 0 \/ Dir(keys).dy # 0
      /\ p.vx = player.vx /\ p.vy = player.vy
      /\ p.x = player.x + player.vx /\ p.y = player.y + player.vy

\* C6: away from the edges the steady-state speed of holding direction keys
\* is the same for one key and for two perpendicular keys: 2.7 without
\* slow-walk and 1.35 with it (up to the rounding of the arithmetic).
C6_DiagonalSpeedEqualsAxisSpeed ==
  Steady =>
    LET sp == Hypot(player.vx, player.vy)
        want == IF "SHIFT" \in keys THEN 1350 ELSE 2700
    IN  Abs(sp - want) <= SpeedTol

\* C6's case: a diagonal steady state.
C6_DiagonalSteady ==
  Steady /\ Dir(keys).dx # 0 /\ Dir(keys).dy # 0 /\ frames > 0

\* C7: at the end of every frame the speed is at most 3.0, and at most 1.5
\* when SHIFT was held in the frame, whatever the velocity before it.
C7_SpeedWithinMax ==
  /\ Speed2 <= 3000 * 3000
  /\ "SHIFT" \in keys => Speed2 <= 1500 * 1500

\* C7's case: a frame with SHIFT held that started at speed 2.7 (20 frames of
\* RIGHT from the start) has ended.
C7_SlowedFromFullSpeed ==
  /\ frames = 1 /\ keys = {"RIGHT", "SHIFT"}
  /\ player.x > Held(20, {"RIGHT"}, 0, 0).player.x
  /\ player.x < Held(20, {"RIGHT"}, 0, 0).player.x + Px(3)

\* C8: in a frame, after the velocity is added to the position, an axis whose
\* position is outside the world is set to the bound it passed and its
\* velocity is multiplied by 0.2; an axis inside keeps position and velocity.
C8_EdgeClipDampsItsAxis ==
  [][IsFrame =>
       LET v == VelocityUpdate([vx |-> player.vx, vy |-> player.vy], keys')
           x1 == player.x + v.vx
           y1 == player.y + v.vy
       IN  /\ x1 < 0 => player.x' = 0 /\ player.vx' = Mul(v.vx, 200)
           /\ x1 > Px(2400) => player.x' = Px(2400) /\ player.vx' = Mul(v.vx, 200)
           /\ 0 <= x1 /\ x1 <= Px(2400) => player.x' = x1 /\ player.vx' = v.vx
           /\ y1 < 0 => player.y' = 0 /\ player.vy' = Mul(v.vy, 200)
           /\ y1 > Px(1600) => player.y' = Px(1600) /\ player.vy' = Mul(v.vy, 200)
           /\ 0 <= y1 /\ y1 <= Px(1600) => player.y' = y1 /\ player.vy' = v.vy]_vars

\* C8's case: a frame has clipped x at the left edge (x is 0 and the velocity
\* still points left) while y moved freely.
C8_ClippedOnXOnly ==
  /\ frames > 0 /\ player.x = 0 /\ player.vx < 0
  /\ player.y > 0 /\ player.y < Px(1600) /\ player.vy > 0

\* C9: 0 <= driftFade <= 1 in every reachable state, and a frame increases
\* driftFade only with reduced motion off and the velocity after the motion
\* update exactly (0, 0).
C9_DriftFadeRange ==
  /\ [](0 <= driftFade /\ driftFade <= Unit)
  /\ [][IsFrame /\ driftFade' > driftFade =>
          ~opt.reducedMotion /\ player.vx' = 0 /\ player.vy' = 0]_vars

\* C9's case: an idle frame has raised a driftFade that was above one half.
C9_FadedInFurther ==
  /\ frames > 0 /\ AtRest /\ ~opt.reducedMotion
  /\ driftFade > Held(40, {}, 1000, 0).driftFade /\ driftFade > 500

\* C10: H changes only opt.highContrast; M changes only opt.reducedMotion and,
\* when it turns reduced motion on, driftFade; neither changes the player or
\* the camera; a key other than M, H, R changes nothing.
C10_TogglesLeaveMotionAlone ==
  [][\A ch \in KeyChars :
       KeyPressedWith(ch) =>
         /\ ch \in {"h", "H"} =>
              /\ player' = player /\ cam' = cam /\ driftFade' = driftFade
              /\ opt'.reducedMotion = opt.reducedMotion
              /\ opt'.highContrast = ~opt.highContrast
         /\ ch \in {"m", "M"} =>
              /\ player' = player /\ cam' = cam
              /\ opt'.highContrast = opt.highContrast
              /\ opt'.reducedMotion = ~opt.reducedMotion
              /\ driftFade' = IF opt'.reducedMotion THEN 0 ELSE driftFade
         /\ ch \notin {"m", "M", "h", "H", "r", "R"} => UNCHANGED vars]_vars

\* C10's case: both toggles were pressed while the player moved and the drift
\* was fading out; the motion is as the frame left it.
C10_ToggledWhileMoving ==
  /\ opt.highContrast /\ opt.reducedMotion
  /\ frames > 0 /\ player.vx # 0 /\ player.vy # 0 /\ cam.x # cam.tx

====
